---- MODULE Spec2Model ----
(***************************************************************************)
(* Model of scripts/normalize_icons.py: the SVG normalizer                 *)
(* (normalize_svg), the entry renderer (build_entries), the marker-region  *)
(* injector (update_icons_js) and the command main().                      *)
(*                                                                         *)
(* Text is a sequence of units.  A unit is a one-character string, a       *)
(* multi-character chunk that the program only ever treats as a whole (a   *)
(* marker line, a character reference such as "&#13;", a key of KEY_MAP),  *)
(* or a tag record [k, q, ns, a] standing for the markup "<q ns a>",       *)
(* "<q ns a />" or "</q>".  Element names and attribute values are spelled *)
(* character by character.                                                 *)
(***************************************************************************)
EXTENDS Integers, Sequences, FiniteSets, TLC

VARIABLES svg_text, out1, out2, npc, files, icons_js, entries, pc, run, log

vars == <<svg_text, out1, out2, npc, files, icons_js, entries, pc, run, log>>

normVars == <<svg_text, out1, out2, npc>>
mainVars == <<files, icons_js, entries, pc, run, log>>

\* ------------------------------------------------------------------ bounds
MaxNodes == 3
MaxContentLen == 4
MaxEntriesLen == 2
MaxCalls == 2
MaxRuns == 2

\* --------------------------------------------------------- generic helpers
\* the concatenation of the sequences ss[lo], ..., ss[hi]
RECURSIVE ConcatRange(_, _, _)
ConcatRange(ss, lo, hi) ==
  IF lo > hi THEN <<>>
  ELSE IF lo = hi THEN ss[lo]
  ELSE LET mid == (lo + hi) \div 2
       IN ConcatRange(ss, lo, mid) \o ConcatRange(ss, mid + 1, hi)

Concat(ss) == ConcatRange(ss, 1, Len(ss))

Indices(s) == [i \in DOMAIN s |-> i]

RECURSIVE SeqsUpTo(_, _)
SeqsUpTo(S, n) ==
  IF n = 0 THEN {<<>>}
  ELSE LET prev == SeqsUpTo(S, n - 1)
       IN prev \cup {Append(s, x) : s \in {p \in prev : Len(p) = n - 1}, x \in S}

Range(s) == {s[i] : i \in DOMAIN s}

IsPrefix(p, s) == Len(p) <= Len(s) /\ SubSeq(s, 1, Len(p)) = p

NoVal == "NoVal"

\* ------------------------------------------------------------- module data
SVG_NS == "http://www.w3.org/2000/svg"
OTHER_NS == "urn:o"

\* ET.register_namespace("", SVG_NS): the serializer's uri -> prefix table.
RegisteredPrefix(uri) == IF uri = SVG_NS THEN "" ELSE NoVal

Stems == <<"ns", "ps", "xbox">>
KEY_MAP == [s \in Range(Stems) |->
              CASE s = "ns" -> "nintendo" [] s = "ps" -> "playstation" [] OTHER -> "xbox"]

START_MARKER == "  // BEGIN GENERATED ICONS (scripts/normalize_icons.py)"
END_MARKER == "  // END GENERATED ICONS"

\* spelled names
n_svg == <<"s", "v", "g">>
n_svgx == <<"s", "v", "g", "x">>
n_path == <<"p", "a", "t", "h">>
n_g == <<"g">>
n_text == <<"t", "e", "x", "t">>
n_title == <<"t", "i", "t", "l", "e">>
n_desc == <<"d", "e", "s", "c">>
n_metadata == <<"m", "e", "t", "a", "d", "a", "t", "a">>

v_16 == <<"1", "6">>
v_default_box == <<"0", " ", "0", " ", "1", "6", " ", "1", "6">>
v_currentColor == <<"c", "u", "r", "r", "e", "n", "t", "C", "o", "l", "o", "r">>
v_currentcolor == <<"c", "u", "r", "r", "e", "n", "t", "c", "o", "l", "o", "r">>
v_none == <<"n", "o", "n", "e">>
v_true == <<"t", "r", "u", "e">>
v_false == <<"f", "a", "l", "s", "e">>

\* ------------------------------------------------------- string operations
\* str.strip() / regex \s: the whitespace characters of the model alphabet.
Whitespace == {" ", "\n", "\r", "\t"}

RECURSIVE LStrip(_)
LStrip(s) == IF s # <<>> /\ Head(s) \in Whitespace THEN LStrip(Tail(s)) ELSE s

RECURSIVE RStrip(_)
RStrip(s) ==
  IF s # <<>> /\ s[Len(s)] \in Whitespace THEN RStrip(SubSeq(s, 1, Len(s) - 1)) ELSE s

Strip(s) == RStrip(LStrip(s))

LowerChar(c) ==
  CASE c = "N" -> "n" [] c = "O" -> "o" [] c = "E" -> "e" [] c = "C" -> "c"
    [] c = "F" -> "f" [] c = "R" -> "r" [] c = "D" -> "d"
    [] OTHER -> c

Lower(s) == [i \in DOMAIN s |-> LowerChar(s[i])]

\* ------------------------------------------------------------------- units
Ch(c) == [k |-> "c", c |-> c]

IsTag(u) == u.k # "c"

IsWs(u) == u.k = "c" /\ u.c \in Whitespace

\* a sequence of one-character strings as text
T(s) == [i \in DOMAIN s |-> Ch(s[i])]

OpenTag(q, ns, a) == [k |-> "open", q |-> q, ns |-> ns, a |-> a]
EmptyTag(q, ns, a) == [k |-> "empty", q |-> q, ns |-> ns, a |-> a]
CloseTag(q) == [k |-> "close", q |-> q]

\* qualified name as written in markup: prefix (possibly "") and local name
QN(p, n) == [p |-> p, n |-> n]
Attr(key, value) == [key |-> key, value |-> value]

\* ------------------------------------------- ET.fromstring (XML parsing)
\* An element tree: nodes are numbered 1..Len(tag) in document order, node 1
\* is the root; kids[i] is the ordered list of the children of node i.
EmptyTree == [tag |-> <<>>, attrib |-> <<>>, text |-> <<>>, tail |-> <<>>, kids |-> <<>>]

ParseError == [ok |-> FALSE]

\* XML end-of-line handling: a literal CR LF pair or a lone CR is read as LF.
NormalizeLineEnds(s) ==
  LET kept == SelectSeq(Indices(s), LAMBDA i : ~(s[i] = Ch("\n") /\ i > 1 /\ s[i - 1] = Ch("\r")))
  IN [k \in DOMAIN kept |-> IF s[kept[k]] = Ch("\r") THEN Ch("\n") ELSE s[kept[k]]]

\* character and entity references in character data
DecodeChar(c) ==
  CASE c = "&#13;" -> "\r" [] c = "&#10;" -> "\n" [] c = "&lt;" -> "<" [] OTHER -> c

\* attribute-value normalization: literal white space is read as a space
DecodeAttrChar(c) ==
  IF c \in {"\n", "\r", "\t"} THEN " " ELSE DecodeChar(c)

DecodeAttrs(a) ==
  [i \in DOMAIN a |-> Attr(a[i].key, [j \in DOMAIN a[i].value |-> DecodeAttrChar(a[i].value[j])])]

Declared(ns, p) == \E i \in DOMAIN ns : ns[i][1] = p

UriOf(ns, p) == ns[CHOOSE i \in DOMAIN ns : ns[i][1] = p][2]

\* the tag of an element as ElementTree stores it: "{uri}local" or "local"
ResolveTag(ns, q) ==
  IF Declared(ns, q.p) THEN <<"{", UriOf(ns, q.p), "}">> \o q.n ELSE q.n

AddNode(t, parent, tag, attrib) ==
  LET id == Len(t.tag) + 1
      kids1 == Append(t.kids, <<>>)
  IN [tag |-> Append(t.tag, tag),
      attrib |-> Append(t.attrib, attrib),
      text |-> Append(t.text, <<>>),
      tail |-> Append(t.tail, <<>>),
      kids |-> IF parent = 0 THEN kids1
               ELSE [kids1 EXCEPT ![parent] = Append(@, id)]]

\* One unit of input.  st.stack holds the open elements (id and written name),
\* st.last the element closed last at the current level (0 when none): character
\* data goes to its tail, otherwise to the text of the innermost open element.
ParseStep(st, u) ==
  IF ~st.ok THEN st
  ELSE IF u.k \in {"open", "empty"} THEN
    IF (st.stack = <<>> /\ Len(st.t.tag) > 0)
         \/ (u.q.p # "" /\ ~Declared(st.ns \o u.ns, u.q.p))
      THEN [st EXCEPT !.ok = FALSE]
    ELSE LET ns1 == st.ns \o u.ns
             id == Len(st.t.tag) + 1
             parent == IF st.stack = <<>> THEN 0 ELSE st.stack[Len(st.stack)].id
             t1 == AddNode(st.t, parent, ResolveTag(ns1, u.q), DecodeAttrs(u.a))
         IN [ok |-> TRUE, t |-> t1, ns |-> ns1,
             stack |-> IF u.k = "open" THEN Append(st.stack, [id |-> id, q |-> u.q])
                       ELSE st.stack,
             last |-> IF u.k = "open" THEN 0 ELSE id]
  ELSE IF u.k = "close" THEN
    IF st.stack = <<>> \/ st.stack[Len(st.stack)].q # u.q
      THEN [st EXCEPT !.ok = FALSE]
    ELSE [st EXCEPT !.stack = SubSeq(@, 1, Len(@) - 1),
                    !.last = st.stack[Len(st.stack)].id]
  ELSE \* character data
    IF st.stack = <<>>
      THEN IF u.c \in Whitespace THEN st ELSE [st EXCEPT !.ok = FALSE]
    ELSE IF st.last # 0
      THEN [st EXCEPT !.t.tail[st.last] = Append(@, DecodeChar(u.c))]
    ELSE [st EXCEPT !.t.text[st.stack[Len(st.stack)].id] = Append(@, DecodeChar(u.c))]

RECURSIVE ParseFrom(_, _)
ParseFrom(st, s) == IF s = <<>> THEN st ELSE ParseFrom(ParseStep(st, Head(s)), Tail(s))

\* ET.fromstring: the tree of a well-formed document, ParseError otherwise.
\* Namespace declarations are written on the root element.
Parse(s) ==
  LET st == ParseFrom([ok |-> TRUE, t |-> EmptyTree, ns |-> <<>>, stack |-> <<>>, last |-> 0],
                      NormalizeLineEnds(s))
  IN IF st.ok /\ st.stack = <<>> /\ Len(st.t.tag) > 0
     THEN [ok |-> TRUE, t |-> st.t]
     ELSE ParseError

\* -------------------------------------------------------- tree operations
Root == 1

Nodes(t) == 1 .. Len(t.tag)

\* Element.iter(): the elements reachable from node i, in document order
RECURSIVE Iter(_, _)
RECURSIVE IterAll(_, _)
Iter(t, i) == <<i>> \o IterAll(t, t.kids[i])
IterAll(t, ks) == IF ks = <<>> THEN <<>> ELSE Iter(t, Head(ks)) \o IterAll(t, Tail(ks))

HasKey(a, key) == \E i \in DOMAIN a : a[i].key = key

Get(a, key) == a[CHOOSE i \in DOMAIN a : a[i].key = key].value

\* dict.pop(key, None)
Pop(a, key) == SelectSeq(a, LAMBDA e : e.key # key)

\* Element.set: overwrite in place, or insert at the end
SetAttr(a, key, value) ==
  IF HasKey(a, key) THEN [i \in DOMAIN a |-> IF a[i].key = key THEN Attr(key, value) ELSE a[i]]
  ELSE Append(a, Attr(key, value))

\* list.remove(x): drops the first occurrence
RemoveFirst(s, x) ==
  LET i == CHOOSE j \in DOMAIN s : s[j] = x /\ \A h \in 1 .. (j - 1) : s[h] # x
  IN SubSeq(s, 1, i - 1) \o SubSeq(s, i + 1, Len(s))
\* ---------------------------------------------------------- normalize_svg
\* _strip_ns: "{uri}local" -> "local"
_strip_ns(tag) ==
  IF tag # <<>> /\ Head(tag) = "{"
  THEN LET i == CHOOSE j \in DOMAIN tag : tag[j] = "}" /\ \A h \in 1 .. (j - 1) : tag[h] # "}"
       IN SubSeq(tag, i + 1, Len(tag))
  ELSE tag

Denylist == {n_title, n_desc, n_metadata}

\* parent_map = {child: parent for parent in root.iter() for child in parent}
\* (0 stands for "no entry")
ParentMap(t) ==
  [c \in Nodes(t) |->
     IF \E p \in Nodes(t) : c \in Range(t.kids[p])
     THEN CHOOSE p \in Nodes(t) : c \in Range(t.kids[p])
     ELSE 0]

\* variant: only the children of the root are ever detached
RemoveStepDirectOnly(t, parent_map, elem) ==
  IF _strip_ns(t.tag[elem]) \in Denylist /\ parent_map[elem] = Root
  THEN [t EXCEPT !.kids[Root] = RemoveFirst(@, elem)]
  ELSE t

\* one iteration of the removal loop for element elem
RemoveStep(t, parent_map, elem) ==
  IF _strip_ns(t.tag[elem]) \in Denylist /\ parent_map[elem] # 0
  THEN [t EXCEPT !.kids[parent_map[elem]] = RemoveFirst(@, elem)]
  ELSE t

RECURSIVE RemoveLoop(_, _, _)
RemoveLoop(t, parent_map, elems) ==
  IF elems = <<>> THEN t
  ELSE RemoveLoop(RemoveStep(t, parent_map, Head(elems)), parent_map, Tail(elems))

\* lines 39-44: the loop runs over a snapshot of the elements
RemoveMetadata(t) == RemoveLoop(t, ParentMap(t), Iter(t, Root))

\* view_box or "0 0 16 16": None and the empty string are both falsy
ViewBoxOr(view_box, default) ==
  IF view_box.some /\ view_box.value # <<>> THEN view_box.value ELSE default

\* variant: the original attributes of the root are not cleared
RebuildRootAttribNoClear(t) ==
  LET a == t.attrib[Root]
      view_box == IF HasKey(a, "viewBox") THEN [some |-> TRUE, value |-> Get(a, "viewBox")]
                  ELSE [some |-> FALSE, value |-> <<>>]
      box == ViewBoxOr(view_box, v_default_box)
      a1 == SetAttr(a, "width", v_16)
      a2 == SetAttr(a1, "height", v_16)
      a3 == SetAttr(a2, "viewBox", box)
      a4 == SetAttr(a3, "fill", v_currentColor)
      a5 == SetAttr(a4, "aria-hidden", v_true)
      a6 == SetAttr(a5, "focusable", v_false)
  IN [t EXCEPT !.attrib[Root] = a6]

\* lines 46-53
RebuildRootAttrib(t) ==
  LET a == t.attrib[Root]
      view_box == IF HasKey(a, "viewBox") THEN [some |-> TRUE, value |-> Get(a, "viewBox")]
                  ELSE [some |-> FALSE, value |-> <<>>]
      box == ViewBoxOr(view_box, v_default_box)
      a1 == SetAttr(<<>>, "width", v_16)
      a2 == SetAttr(a1, "height", v_16)
      a3 == SetAttr(a2, "viewBox", box)
      a4 == SetAttr(a3, "fill", v_currentColor)
      a5 == SetAttr(a4, "aria-hidden", v_true)
      a6 == SetAttr(a5, "focusable", v_false)
  IN [t EXCEPT !.attrib[Root] = a6]

\* variant: the value is lowercased but not trimmed
StripColorNoTrim(a, attr) ==
  IF HasKey(a, attr)
  THEN IF Lower(Get(a, attr)) \in {v_none, v_currentcolor} THEN a ELSE Pop(a, attr)
  ELSE a

\* lines 56-61 for one attribute of one element
StripColor(a, attr) ==
  IF HasKey(a, attr)
  THEN IF Lower(Strip(Get(a, attr))) \in {v_none, v_currentcolor} THEN a ELSE Pop(a, attr)
  ELSE a

\* lines 56-62 for one element
StripElem(a) == Pop(StripColor(StripColor(a, "fill"), "stroke"), "style")

RECURSIVE StripLoop(_, _)
StripLoop(t, elems) ==
  IF elems = <<>> THEN t
  ELSE StripLoop([t EXCEPT !.attrib[Head(elems)] = StripElem(@)], Tail(elems))

\* lines 55-62
StripColors(t) == StripLoop(t, Iter(t, Root))

\* ------------------------------------------------ ET.tostring (serializer)
NsPrefix(n) == CASE n = 0 -> "ns0" [] n = 1 -> "ns1" [] OTHER -> "ns2"

HasUri(m, uri) == \E i \in DOMAIN m : m[i][2] = uri

PrefixOf(m, uri) == m[CHOOSE i \in DOMAIN m : m[i][2] = uri][1]

\* _namespaces: the uri -> prefix table, in order of first use (as <<prefix, uri>>)
RECURSIVE Namespaces(_, _, _)
Namespaces(t, elems, m) ==
  IF elems = <<>> THEN m
  ELSE LET tag == t.tag[Head(elems)]
           m1 == IF tag # <<>> /\ Head(tag) = "{" /\ ~HasUri(m, tag[2])
                 THEN Append(m, <<IF RegisteredPrefix(tag[2]) # NoVal
                                  THEN RegisteredPrefix(tag[2])
                                  ELSE NsPrefix(Len(m)), tag[2]>>)
                 ELSE m
       IN Namespaces(t, Tail(elems), m1)

\* sorted(namespaces.items(), key=prefix)
SortedNs(m) == SelectSeq(m, LAMBDA e : e[1] = "") \o SelectSeq(m, LAMBDA e : e[1] # "")

SerQName(m, tag) ==
  IF tag # <<>> /\ Head(tag) = "{"
  THEN QN(PrefixOf(m, tag[2]), _strip_ns(tag))
  ELSE QN("", tag)

\* _escape_cdata
EscapeCdata(s) == [i \in DOMAIN s |-> Ch(IF s[i] = "<" THEN "&lt;" ELSE s[i])]

\* _escape_attrib
EscapeAttribChar(c) ==
  CASE c = "\r" -> "&#13;" [] c = "\n" -> "&#10;" [] c = "\t" -> "&#09;"
    [] c = "<" -> "&lt;" [] OTHER -> c

EscapeAttribs(a) ==
  [i \in DOMAIN a |-> Attr(a[i].key, [j \in DOMAIN a[i].value |-> EscapeAttribChar(a[i].value[j])])]

\* _serialize_xml
RECURSIVE SerElem(_, _, _, _)
RECURSIVE SerAll(_, _, _)
SerElem(t, m, i, ns) ==
  LET q == SerQName(m, t.tag[i])
      a == EscapeAttribs(t.attrib[i])
  IN (IF t.text[i] # <<>> \/ t.kids[i] # <<>>
      THEN <<OpenTag(q, ns, a)>> \o EscapeCdata(t.text[i]) \o SerAll(t, m, t.kids[i])
             \o <<CloseTag(q)>>
      ELSE <<EmptyTag(q, ns, a)>>)
     \o EscapeCdata(t.tail[i])
SerAll(t, m, ks) ==
  IF ks = <<>> THEN <<>> ELSE SerElem(t, m, Head(ks), <<>>) \o SerAll(t, m, Tail(ks))

\* ET.tostring(root, encoding="unicode")
tostring(t) ==
  LET m == Namespaces(t, Iter(t, Root), <<>>)
  IN SerElem(t, m, Root, SortedNs(m))

\* re.sub(r">\s*<", ">\n<", svg): ">" and "<" occur only as the ends of tags
\* (the serializer escapes them elsewhere), so a match is the possibly empty
\* run of white space between two consecutive tags.
RECURSIVE WsRun(_)
WsRun(s) == IF s # <<>> /\ IsWs(Head(s)) THEN 1 + WsRun(Tail(s)) ELSE 0

RECURSIVE CollapseWs(_)
CollapseWs(s) ==
  IF s = <<>> THEN <<>>
  ELSE IF IsTag(Head(s))
       THEN LET w == WsRun(Tail(s))
                rest == SubSeq(s, w + 2, Len(s))
            IN IF rest # <<>> /\ IsTag(Head(rest))
               THEN <<Head(s), Ch("\n")>> \o CollapseWs(rest)
               ELSE <<Head(s)>> \o CollapseWs(Tail(s))
       ELSE <<Head(s)>> \o CollapseWs(Tail(s))

\* str.strip() on text
RECURSIVE LStripText(_)
LStripText(s) == IF s # <<>> /\ IsWs(Head(s)) THEN LStripText(Tail(s)) ELSE s

RECURSIVE RStripText(_)
RStripText(s) ==
  IF s # <<>> /\ IsWs(s[Len(s)]) THEN RStripText(SubSeq(s, 1, Len(s) - 1)) ELSE s

StripText(s) == RStripText(LStripText(s))

ValueError == <<[k |-> "ValueError"]>>

\* normalize_svg(svg_text): the normalized text, or ValueError
normalize_svg(text) ==
  LET parsed == Parse(text)
  IN IF ~parsed.ok THEN ValueError
     ELSE StripText(CollapseWs(tostring(StripColors(RebuildRootAttrib(RemoveMetadata(parsed.t))))))
\* a source file of SRC_DIR: present or not, and its content
File(text) == [exists |-> TRUE, text |-> text]
Missing == [exists |-> FALSE, text |-> <<>>]
NoFiles == [s \in Range(Stems) |-> Missing]

\* ------------------------------------------------------------ input texts
\* Documents are built from a shape (the parent of each element, elements in
\* document order) and one profile per element.
v_box24 == <<"0", " ", "0", " ", "2", "4", " ", "2", "4">>
v_red == <<"r", "e", "d">>
v_hex == <<"#", "F", "0", "0">>

OtherDecl == <<"o", OTHER_NS>>

RootProfiles ==
  { [q |-> QN("", n_svg), ns |-> <<OtherDecl>>, text |-> <<>>, tail |-> <<>>,
     a |-> <<Attr("viewBox", v_box24), Attr("width", <<"2", "4">>), Attr("fill", v_red),
             Attr("style", <<"x">>)>>],
    [q |-> QN("", n_svg), ns |-> <<<<"", SVG_NS>>, OtherDecl>>, text |-> <<" ">>, tail |-> <<>>,
     a |-> <<>>],
    [q |-> QN("x", n_svg), ns |-> <<<<"x", SVG_NS>>, OtherDecl>>, text |-> <<>>, tail |-> <<"\n">>,
     a |-> <<Attr("stroke", v_none), Attr("viewBox", <<>>)>>],
    [q |-> QN("", n_title), ns |-> <<OtherDecl>>, text |-> <<>>, tail |-> <<>>,
     a |-> <<Attr("viewBox", v_box24)>>] }

NodeProfiles ==
  { [q |-> QN("", n_path), text |-> <<>>, tail |-> <<>>,
     a |-> <<Attr("d", <<"M", "0">>), Attr("fill", v_hex)>>],
    [q |-> QN("", n_path), text |-> <<>>, tail |-> <<" ">>,
     a |-> <<Attr("fill", <<"&#10;", "N", "o", "n", "e", " ">>), Attr("style", <<"x">>),
             Attr("stroke", v_currentColor), Attr("d", <<"M", "0">>)>>],
    [q |-> QN("", n_title), text |-> <<"d">>, tail |-> <<>>, a |-> <<>>],
    [q |-> QN("o", n_desc), text |-> <<>>, tail |-> <<>>, a |-> <<Attr("fill", v_none)>>],
    [q |-> QN("", n_g), text |-> <<"\n">>, tail |-> <<"d">>, a |-> <<Attr("stroke", v_red)>>],
    [q |-> QN("", n_text), text |-> <<"d", "&#13;">>, tail |-> <<>>,
     a |-> <<Attr("stroke", <<"N", "O", "N", "E">>)>>],
    [q |-> QN("", n_metadata), text |-> <<>>, tail |-> <<"\r", "\n">>, a |-> <<>>],
    [q |-> QN("", n_svgx), text |-> <<>>, tail |-> <<>>, a |-> <<>>] }

RECURSIVE AncSelf(_, _)
AncSelf(par, i) == IF i = 0 THEN {} ELSE {i} \cup AncSelf(par, par[i])

Shapes(n) ==
  {par \in [1 .. n -> 0 .. (n - 1)] :
     /\ par[1] = 0
     /\ \A i \in 2 .. n : par[i] \in 1 .. (i - 1)
     /\ \A i \in 2 .. n : par[i] \in AncSelf(par, i - 1)}

Sketches ==
  UNION {{[par |-> par, prof |-> [i \in 1 .. n |-> IF i = 1 THEN r ELSE f[i]]] :
            par \in Shapes(n), r \in RootProfiles, f \in [2 .. n -> NodeProfiles]} :
         n \in 1 .. MaxNodes}

RECURSIVE KidsOf(_, _, _)
KidsOf(par, i, j) ==
  IF j > Len(par) THEN <<>>
  ELSE (IF par[j] = i THEN <<j>> ELSE <<>>) \o KidsOf(par, i, j + 1)

RECURSIVE SrcElem(_, _)
RECURSIVE SrcAll(_, _)
SrcElem(sk, i) ==
  LET p == sk.prof[i]
      ns == IF i = 1 THEN p.ns ELSE <<>>
      ks == KidsOf(sk.par, i, i + 1)
  IN (IF p.text # <<>> \/ ks # <<>>
      THEN <<OpenTag(p.q, ns, p.a)>> \o T(p.text) \o SrcAll(sk, ks) \o <<CloseTag(p.q)>>
      ELSE <<EmptyTag(p.q, ns, p.a)>>)
     \o T(p.tail)
SrcAll(sk, ks) == IF ks = <<>> THEN <<>> ELSE SrcElem(sk, Head(ks)) \o SrcAll(sk, Tail(ks))

SrcText(sk) == SrcElem(sk, 1)

\* texts that are not well-formed: an unclosed element, a mismatched end tag,
\* an undeclared prefix, a second root element
Malformed ==
  { <<OpenTag(QN("", n_svg), <<>>, <<>>)>>,
    <<OpenTag(QN("", n_svg), <<>>, <<>>), CloseTag(QN("", n_g))>>,
    <<OpenTag(QN("", n_svg), <<>>, <<>>), EmptyTag(QN("o", n_desc), <<>>, <<>>),
      CloseTag(QN("", n_svg))>>,
    <<EmptyTag(QN("", n_svg), <<>>, <<>>), EmptyTag(QN("", n_svg), <<>>, <<>>)>> }

SvgTexts == {SrcText(sk) : sk \in Sketches} \cup Malformed

\* ------------------------------------------- specification: normalize_svg

InitNormalize ==
  /\ svg_text \in SvgTexts
  /\ out1 = <<>> /\ out2 = <<>> /\ npc = "start"
  /\ files = NoFiles /\ icons_js = <<>> /\ entries = <<>> /\ pc = "off" /\ run = 0
  /\ log = <<>>

\* result = normalize_svg(svg_text)
NormalizeSvg ==
  /\ npc = "start"
  /\ out1' = normalize_svg(svg_text)
  /\ npc' = IF out1' = ValueError THEN "raised" ELSE "once"
  /\ UNCHANGED <<svg_text, out2>>
  /\ UNCHANGED mainVars

\* normalize_svg applied to its own output
NormalizeAgain ==
  /\ npc = "once"
  /\ out2' = normalize_svg(out1)
  /\ npc' = "twice"
  /\ UNCHANGED <<svg_text, out1>>
  /\ UNCHANGED mainVars

NextNormalize == NormalizeSvg \/ NormalizeAgain

SpecNormalize == InitNormalize /\ [][NextNormalize]_vars
\* ------------------------------------------------------------ file access
\* Path.read_text: text mode with universal newlines, CR LF and CR read as LF
ReadText(disk) == NormalizeLineEnds(disk)

\* Path.write_text on a POSIX system: "\n" is written as it is
WriteText(text) == text


\* ---------------------------------------------------------- build_entries
IsLineEnd(u) == u.k = "c" /\ u.c \in {"\n", "\r"}

\* str.splitlines()
RECURSIVE SplitLines(_)
SplitLines(s) ==
  IF s = <<>> THEN <<>>
  ELSE IF \E i \in DOMAIN s : IsLineEnd(s[i])
       THEN LET i == CHOOSE j \in DOMAIN s : IsLineEnd(s[j]) /\ \A h \in 1 .. (j - 1) : ~IsLineEnd(s[h])
                skip == IF s[i] = Ch("\r") /\ i < Len(s) /\ s[i + 1] = Ch("\n") THEN i + 1 ELSE i
            IN <<SubSeq(s, 1, i - 1)>> \o SplitLines(SubSeq(s, skip + 1, Len(s)))
       ELSE <<s>>

\* the characters a unit stands for in the text, as far as the name
MarkupChars(u) ==
  LET pre == IF u.q.p = "" THEN <<>> ELSE <<u.q.p, ":">>
  IN CASE u.k = "c" -> <<u.c>>
       [] u.k = "close" -> <<"<", "/">> \o pre \o u.q.n \o <<">">>
       [] OTHER -> <<"<">> \o pre \o u.q.n \o <<" ">>

LineChars(line) == Concat([i \in DOMAIN line |-> MarkupChars(line[i])])

\* line.startswith("</svg")
StartsWithCloseSvg(line) == IsPrefix(<<"<", "/", "s", "v", "g">>, LineChars(line))

\* "\n".join / "\n\n".join
RECURSIVE Join(_, _)
Join(sep, parts) ==
  IF parts = <<>> THEN <<>>
  ELSE IF Len(parts) = 1 THEN Head(parts)
  ELSE Head(parts) \o sep \o Join(sep, Tail(parts))

\* the backquote character of the template literal
BQ == "BACKQUOTE"

\* variant: the closing tag is indented like every other line
IndentLineFour(line) == T(<<" ", " ", " ", " ">>) \o line

\* lines 82-84: one later line with its indent
IndentLine(line) ==
  (IF StartsWithCloseSvg(line) THEN T(<<" ", " ">>) ELSE T(<<" ", " ", " ", " ">>)) \o line

\* lines 76-86: the entry of one icon
Entry(key, svg) ==
  LET split == SplitLines(svg)
      lines == IF split = <<>> THEN <<svg>> ELSE split
  IN IF Len(lines) = 1
     THEN T(<<" ", " ", key, ":", " ", BQ>>) \o lines[1] \o T(<<BQ, ",">>)
     ELSE LET first == T(<<" ", " ", key, ":", " ", BQ>>) \o lines[1]
              later == [i \in 1 .. (Len(lines) - 1) |-> IndentLine(lines[i + 1])]
              entry_lines == <<first>> \o later
              closed == [entry_lines EXCEPT ![Len(entry_lines)] = @ \o T(<<BQ, ",">>)]
          IN Join(T(<<"\n">>), closed)

\* variant: a stem without a source file is skipped
RECURSIVE BuildFromSkipMissing(_, _, _)
BuildFromSkipMissing(fs, i, acc) ==
  IF i > Len(Stems) THEN [result |-> "ok", entries |-> Join(T(<<"\n", "\n">>), acc)]
  ELSE LET stem == Stems[i] IN
       IF ~fs[stem].exists THEN BuildFromSkipMissing(fs, i + 1, acc)
       ELSE LET svg == normalize_svg(ReadText(fs[stem].text)) IN
            IF svg = ValueError THEN [result |-> "ValueError", entries |-> <<>>]
            ELSE BuildFromSkipMissing(fs, i + 1, Append(acc, Entry(KEY_MAP[stem], svg)))

\* the loop of build_entries over the stems from position i on
RECURSIVE BuildFrom(_, _, _)
BuildFrom(fs, i, acc) ==
  IF i > Len(Stems) THEN [result |-> "ok", entries |-> Join(T(<<"\n", "\n">>), acc)]
  ELSE LET stem == Stems[i] IN
       IF ~fs[stem].exists THEN [result |-> "FileNotFoundError", entries |-> <<>>]
       ELSE LET svg == normalize_svg(ReadText(fs[stem].text)) IN
            IF svg = ValueError THEN [result |-> "ValueError", entries |-> <<>>]
            ELSE BuildFrom(fs, i + 1, Append(acc, Entry(KEY_MAP[stem], svg)))

build_entries(fs) == BuildFrom(fs, 1, <<>>)

\* -------------------------------------------------------- update_icons_js
StartUnit == Ch(START_MARKER)
EndUnit == Ch(END_MARKER)

\* The markers do not overlap themselves or each other, so an occurrence of a
\* marker in a text is one unit of it.
\* pattern.search from position from: START_MARKER, then lazily anything, then
\* END_MARKER.  The leftmost begin marker decides: later ones have no more end
\* markers behind them than it has.
HasStart(s, from) == \E i \in from .. Len(s) : s[i] = StartUnit

FirstStart(s, from) ==
  CHOOSE i \in from .. Len(s) : s[i] = StartUnit /\ \A h \in from .. (i - 1) : s[h] # StartUnit

HasEndAfter(s, i) == \E j \in (i + 1) .. Len(s) : s[j] = EndUnit

FirstEndAfter(s, i) ==
  CHOOSE j \in (i + 1) .. Len(s) : s[j] = EndUnit /\ \A h \in (i + 1) .. (j - 1) : s[h] # EndUnit

Matches(s, from) == HasStart(s, from) /\ HasEndAfter(s, FirstStart(s, from))

\* variant: both markers occur somewhere, in any order
SearchAnyOrder(content) ==
  HasStart(content, 1) /\ \E j \in DOMAIN content : content[j] = EndUnit

\* pattern.search(content)
Search(content) == Matches(content, 1)

\* the replacement argument of pattern.sub is a template: letters that may follow
\* a backslash, and the escapes sre knows
AsciiLetters == {"d", "n"}

TemplateError == [ok |-> FALSE, text |-> <<>>]

\* parse_template: unit i of the template is a backslash that starts an escape
\* when an even number of backslashes stands directly before it
BackslashRun(tpl, i) ==
  LET others == {j \in 1 .. (i - 1) : tpl[j] # Ch("\\")}
      last == IF others = {} THEN 0 ELSE CHOOSE j \in others : \A h \in others : h <= j
  IN i - 1 - last

Escapes(tpl, i) == tpl[i] = Ch("\\") /\ i < Len(tpl) /\ BackslashRun(tpl, i) % 2 = 0

BadEscape(tpl, i) ==
  /\ Escapes(tpl, i)
  /\ tpl[i + 1].k = "c" /\ tpl[i + 1].c \in AsciiLetters
  /\ tpl[i + 1] # Ch("n")

\* what unit i of the template contributes for the match m
Piece(tpl, m, i) ==
  IF Escapes(tpl, i)
  THEN LET c == tpl[i + 1]
       IN IF c = Ch("g<0>") THEN m
          ELSE IF c = Ch("n") THEN <<Ch("\n")>>
          ELSE IF c = Ch("\\") THEN <<Ch("\\")>>
          ELSE <<Ch("\\"), c>>
  ELSE IF i > 1 /\ Escapes(tpl, i - 1) THEN <<>>
  ELSE <<tpl[i]>>

\* parse_template and expansion for one match m
Expand(tpl, m) ==
  IF \E i \in DOMAIN tpl : BadEscape(tpl, i) THEN TemplateError
  ELSE [ok |-> TRUE, text |-> Concat([i \in DOMAIN tpl |-> Piece(tpl, m, i)])]

\* pattern.sub(replacement, content): every non-overlapping match is replaced
RECURSIVE Sub(_, _, _)
Sub(tpl, s, from) ==
  IF ~Matches(s, from) THEN [ok |-> TRUE, text |-> SubSeq(s, from, Len(s))]
  ELSE LET i == FirstStart(s, from)
           j == FirstEndAfter(s, i)
           e == Expand(tpl, SubSeq(s, i, j))
           rest == Sub(tpl, s, j + 1)
       IN [ok |-> e.ok /\ rest.ok, text |-> SubSeq(s, from, i - 1) \o e.text \o rest.text]

\* variant: the file is written and True returned without comparing
update_icons_js_always(disk, ents) ==
  LET content == ReadText(disk)
      replacement == <<StartUnit, Ch("\n")>> \o ents \o <<Ch("\n"), EndUnit>>
      updated == Sub(replacement, content, 1)
      call == [entries |-> ents, before |-> disk, read |-> content, computed |-> <<>>,
               result |-> "", writes |-> 0, after |-> disk]
  IN IF ~Search(content) THEN [call EXCEPT !.result = "RuntimeError"]
     ELSE IF ~updated.ok THEN [call EXCEPT !.result = "re.error"]
     ELSE [call EXCEPT !.result = "True", !.computed = updated.text, !.writes = 1,
                       !.after = WriteText(updated.text)]

\* lines 91-105; the outcome of one call on the file as it is on disk
update_icons_js(disk, ents) ==
  LET content == ReadText(disk)
      replacement == <<StartUnit, Ch("\n")>> \o ents \o <<Ch("\n"), EndUnit>>
      updated == Sub(replacement, content, 1)
      call == [entries |-> ents, before |-> disk, read |-> content, computed |-> <<>>,
               result |-> "", writes |-> 0, after |-> disk]
  IN IF ~Search(content) THEN [call EXCEPT !.result = "RuntimeError"]
     ELSE IF ~updated.ok THEN [call EXCEPT !.result = "re.error"]
     ELSE IF updated.text # content
          THEN [call EXCEPT !.result = "True", !.computed = updated.text, !.writes = 1,
                            !.after = WriteText(updated.text)]
          ELSE [call EXCEPT !.result = "False", !.computed = updated.text]
\* ----------------------------------------- specification: update_icons_js
ContentAlphabet == {"-", START_MARKER, END_MARKER, "\r"}
EntriesAlphabet == {"-", "\\", "d", "n", "g<0>", END_MARKER, "\r"}

Contents == {T(c) : c \in SeqsUpTo(ContentAlphabet, MaxContentLen)}
EntriesTexts == {T(e) : e \in SeqsUpTo(EntriesAlphabet, MaxEntriesLen)}

InitInject ==
  /\ svg_text = <<>> /\ out1 = <<>> /\ out2 = <<>> /\ npc = "off"
  /\ files = NoFiles
  /\ icons_js \in Contents
  /\ entries \in EntriesTexts
  /\ pc = "inject" /\ run = 0
  /\ log = <<>>

\* changed = update_icons_js(entries), called directly
UpdateIconsJs ==
  /\ pc = "inject"
  /\ Len(log) < MaxCalls
  /\ LET call == update_icons_js(icons_js, entries)
     IN /\ icons_js' = call.after
        /\ log' = Append(log, call)
  /\ UNCHANGED <<files, entries, pc, run>>
  /\ UNCHANGED normVars

NextInject == UpdateIconsJs

SpecInject == InitInject /\ [][NextInject]_vars

\* ------------------------------------------------- specification: main()
Elem(q, a, text) == [q |-> q, a |-> a, text |-> text, tail |-> <<>>]

PlainRoot == [q |-> QN("", n_svg), ns |-> <<<<"", SVG_NS>>>>, text |-> <<>>, tail |-> <<>>,
              a |-> <<Attr("viewBox", v_box24)>>]

MainSketches ==
  { [par |-> <<0>>, prof |-> <<PlainRoot>>],
    [par |-> <<0, 1>>,
     prof |-> <<PlainRoot, Elem(QN("", n_path), <<Attr("fill", v_hex)>>, <<>>)>>],
    [par |-> <<0, 1, 2, 1>>,
     prof |-> <<PlainRoot, Elem(QN("", n_svgx), <<>>, <<>>),
                Elem(QN("", n_path), <<Attr("d", <<"M", "0">>)>>, <<>>),
                Elem(QN("", n_title), <<>>, <<"d">>)>>],
    [par |-> <<0, 1>>,
     prof |-> <<PlainRoot, Elem(QN("", n_text), <<>>, <<"\\", "d">>)>>],
    [par |-> <<0, 1>>,
     prof |-> <<PlainRoot, Elem(QN("", n_text), <<>>, <<"d", "&#13;", "d">>)>>],
    [par |-> <<0, 1>>,
     prof |-> <<PlainRoot, Elem(QN("", n_text), <<>>, <<END_MARKER>>)>>] }

MainSources ==
  {File(SrcText(sk)) : sk \in MainSketches}
    \cup {Missing, File(<<OpenTag(QN("", n_svg), <<>>, <<>>)>>)}

MainContents ==
  { T(<<"-">>),
    T(<<"-", START_MARKER, "-", END_MARKER, "-", "\r", "\n">>),
    T(<<START_MARKER, END_MARKER>>),
    T(<<END_MARKER, START_MARKER>>),
    T(<<START_MARKER, "-", END_MARKER, START_MARKER, END_MARKER>>) }

Init ==
  /\ svg_text = <<>> /\ out1 = <<>> /\ out2 = <<>> /\ npc = "off"
  /\ files \in [Range(Stems) -> MainSources]
  /\ icons_js \in MainContents
  /\ entries = <<>>
  /\ pc = "start" /\ run = 1
  /\ log = <<>>

\* main returns 0 (line 115); an exception that leaves main ends the process
\* with status 1
ExitCode(result) == IF result \in {"True", "False"} THEN 0 ELSE 1

\* the record of a run of main() that ended in build_entries
BuildFailure(result, disk) ==
  [entries |-> <<>>, before |-> disk, read |-> <<>>, computed |-> <<>>,
   result |-> result, writes |-> 0, after |-> disk, exit_code |-> ExitCode(result)]

\* line 109: entries = build_entries()
MainBuildEntries ==
  /\ pc = "start"
  /\ LET b == build_entries(files)
     IN IF b.result = "ok"
        THEN /\ entries' = b.entries
             /\ pc' = "built"
             /\ log' = log
        ELSE /\ entries' = entries
             /\ pc' = "failed"
             /\ log' = Append(log, BuildFailure(b.result, icons_js))
  /\ UNCHANGED <<files, icons_js, run>>
  /\ UNCHANGED normVars

\* the record of a run of main() that reached update_icons_js
RunRecord(call) ==
  [entries |-> call.entries, before |-> call.before, read |-> call.read,
   computed |-> call.computed, result |-> call.result, writes |-> call.writes,
   after |-> call.after, exit_code |-> ExitCode(call.result)]

\* lines 110-115: changed = update_icons_js(entries); print; return 0
MainUpdateIconsJs ==
  /\ pc = "built"
  /\ icons_js' = update_icons_js(icons_js, entries).after
  /\ pc' = IF ExitCode(update_icons_js(icons_js, entries).result) = 0 THEN "done" ELSE "failed"
  /\ log' = Append(log, RunRecord(update_icons_js(icons_js, entries)))
  /\ UNCHANGED <<files, entries, run>>
  /\ UNCHANGED normVars

\* the command is run again, with the icon sources as they were
MainAgain ==
  /\ pc \in {"done", "failed"}
  /\ run < MaxRuns
  /\ pc' = "start"
  /\ run' = run + 1
  /\ entries' = <<>>
  /\ UNCHANGED <<files, icons_js, log>>
  /\ UNCHANGED normVars

Next == MainBuildEntries \/ MainUpdateIconsJs \/ MainAgain

Spec == Init /\ [][Next]_vars
\* =================================================================== claims
\* ---- helpers of the properties of normalize_svg
Normalized == npc \in {"once", "twice"}

\* the parsed input and the parsed output of the first call
In == Parse(svg_text).t
Out == Parse(out1).t

LocalName(tag) == IF tag # <<>> /\ Head(tag) = "{" THEN SubSeq(tag, 4, Len(tag)) ELSE tag

Denylisted(t, i) == LocalName(t.tag[i]) \in Denylist

ParentOf(t, i) == IF \E p \in Nodes(t) : i \in Range(t.kids[p])
                  THEN CHOOSE p \in Nodes(t) : i \in Range(t.kids[p]) ELSE 0

RECURSIVE AncestorsSelf(_, _)
AncestorsSelf(t, i) == IF i = 0 THEN {} ELSE {i} \cup AncestorsSelf(t, ParentOf(t, i))

DepthOf(t, i) == Cardinality(AncestorsSelf(t, i)) - 1

\* the elements, in document order, as <<local name, depth>>
ShapeOf(t, elems) == [k \in DOMAIN elems |-> <<LocalName(t.tag[elems[k]]), DepthOf(t, elems[k])>>]

AllElems(t) == [i \in Nodes(t) |-> i]

\* input elements that are neither denylisted nor inside a denylisted element
KeptAll(t) ==
  SelectSeq(AllElems(t), LAMBDA i : \A j \in AncestorsSelf(t, i) : ~Denylisted(t, j))

\* the same, where the root element itself does not count as denylisted
KeptBelowRoot(t) ==
  SelectSeq(AllElems(t), LAMBDA i : \A j \in AncestorsSelf(t, i) \ {Root} : ~Denylisted(t, j))

AllowedColor(value) == Lower(Strip(value)) \in {v_none, v_currentcolor}

SixAttributes(box) ==
  {Attr("width", v_16), Attr("height", v_16), Attr("viewBox", box),
   Attr("fill", v_currentColor), Attr("aria-hidden", v_true), Attr("focusable", v_false)}

RootHasSix(box) ==
  /\ Parse(out1).ok
  /\ Len(Out.attrib[Root]) = 6
  /\ Range(Out.attrib[Root]) = SixAttributes(box)

\* C2 as stated: the root of the output has exactly the six attributes, and
\* viewBox is the input root's viewBox value whenever the input root has a
\* viewBox attribute, "0 0 16 16" otherwise.
C2_AsStated ==
  Normalized =>
    RootHasSix(IF HasKey(In.attrib[Root], "viewBox") THEN Get(In.attrib[Root], "viewBox")
               ELSE v_default_box)

\* C2 (amended): the root of the output has exactly the six attributes width=16,
\* height=16, viewBox, fill=currentColor, aria-hidden=true, focusable=false;
\* viewBox is the input root's viewBox value if the input root has a non-empty
\* one, and "0 0 16 16" if it has none or an empty one.
C2_AttributeClosure ==
  Normalized =>
    RootHasSix(IF HasKey(In.attrib[Root], "viewBox") /\ Get(In.attrib[Root], "viewBox") # <<>>
               THEN Get(In.attrib[Root], "viewBox")
               ELSE v_default_box)

\* a call whose input root carries a viewBox and further attributes
C2_Witness ==
  /\ npc = "once"
  /\ HasKey(In.attrib[Root], "viewBox") /\ Get(In.attrib[Root], "viewBox") = v_box24
  /\ HasKey(In.attrib[Root], "style") /\ HasKey(In.attrib[Root], "width")

\* C3 as stated: no element of the output, at any depth, has a denylisted local
\* name, and the output consists of exactly the input elements that are neither
\* denylisted nor inside a denylisted element, in their position and order.
C3_AsStated ==
  Normalized =>
    /\ Parse(out1).ok
    /\ \A i \in Nodes(Out) : ~Denylisted(Out, i)
    /\ ShapeOf(Out, AllElems(Out)) = ShapeOf(In, KeptAll(In))

\* C3 (amended): no element of the output other than the root itself has a
\* denylisted local name (title, desc, metadata), at any depth; the root is
\* never removed; the output consists of exactly the input elements that have no
\* denylisted element other than the root among themselves and their ancestors,
\* in their original position and order.
C3_MetadataRemoval ==
  Normalized =>
    /\ Parse(out1).ok
    /\ \A i \in Nodes(Out) \ {Root} : ~Denylisted(Out, i)
    /\ ShapeOf(Out, AllElems(Out)) = ShapeOf(In, KeptBelowRoot(In))

\* a call on a document with a denylisted element inside a denylisted element
\* below the root, and another with a surviving element
C3_Witness ==
  /\ npc = "once"
  /\ \E i \in Nodes(In) \ {Root} :
       /\ Denylisted(In, i)
       /\ \E j \in Range(In.kids[i]) : Denylisted(In, j)

\* C4: no element of the output has a style attribute; a fill or stroke of the
\* output has a trimmed, lowercased value of none or currentcolor; a non-root
\* element keeps its attributes, values and order unchanged, except style and
\* the fill and stroke attributes with another value, which are removed.
C4_ColorStripping ==
  Normalized =>
    LET kept == KeptBelowRoot(In) IN
    /\ Parse(out1).ok
    /\ Len(kept) = Len(Out.tag)
    /\ \A k \in Nodes(Out) :
         /\ ~HasKey(Out.attrib[k], "style")
         /\ \A attr \in {"fill", "stroke"} :
              HasKey(Out.attrib[k], attr) => AllowedColor(Get(Out.attrib[k], attr))
         /\ k # Root =>
              Out.attrib[k] =
                SelectSeq(In.attrib[kept[k]],
                          LAMBDA e : /\ e.key # "style"
                                     /\ e.key \in {"fill", "stroke"} => AllowedColor(e.value))

\* a call on a document with an element whose fill is "none" in another case and
\* with white space around it, next to a style and a kept colour
C4_Witness ==
  /\ npc = "once"
  /\ \E i \in Nodes(In) \ {Root} :
       /\ i \in Range(KeptBelowRoot(In))
       /\ HasKey(In.attrib[i], "fill")
       /\ Get(In.attrib[i], "fill") # v_none
       /\ AllowedColor(Get(In.attrib[i], "fill"))
       /\ HasKey(In.attrib[i], "style")
  /\ \E i \in Nodes(In) \ {Root} :
       /\ i \in Range(KeptBelowRoot(In))
       /\ HasKey(In.attrib[i], "fill") /\ Get(In.attrib[i], "fill") = v_hex

\* C9 as stated: the output of normalize_svg is well-formed and normalize_svg
\* maps it to itself.
C9_Idempotent ==
  npc = "twice" => out2 # ValueError /\ out2 = out1

\* ---- helpers of the properties of update_icons_js and main
Returned(r) == r.result \in {"True", "False"}

Count(c, u) == Cardinality({i \in DOMAIN c : c[i] = u})

PosOf(c, u) == CHOOSE i \in DOMAIN c : c[i] = u

\* some begin marker has an end marker after it
RegionFound(c) == \E i, j \in DOMAIN c : i < j /\ c[i] = StartUnit /\ c[j] = EndUnit

\* one begin marker, one end marker, in this order
ExactlyOnce(c) ==
  /\ Count(c, StartUnit) = 1 /\ Count(c, EndUnit) = 1
  /\ PosOf(c, StartUnit) < PosOf(c, EndUnit)

AllIconsNormalize ==
  \A stem \in {"ns", "ps", "xbox"} :
    files[stem].exists /\ Parse(ReadText(files[stem].text)).ok

\* C1: a step that ends a run of main() in failure leaves icons.js as it was,
\* and icons.js changes only in the step that completes a run in which every
\* icon of KEY_MAP has a source file that parses and the marker region was found.
C1_AllOrNothing ==
  [][ /\ pc' = "failed" => icons_js' = icons_js
      /\ icons_js' # icons_js =>
           /\ pc' = "done"
           /\ AllIconsNormalize
           /\ RegionFound(ReadText(icons_js)) ]_vars

\* a run in which all icons normalized and the markers were missing: nothing written
C1_Witness ==
  /\ pc = "failed"
  /\ AllIconsNormalize
  /\ log[Len(log)].result = "RuntimeError"
  /\ log[Len(log)].after = log[Len(log)].before
  /\ icons_js = log[Len(log)].before

\* C5 as stated: when the marker region is found, a second call with the same
\* entries returns False, writes nothing and leaves the file as the first call
\* left it.
C5_IdempotentInjection ==
  (Len(log) = 2 /\ RegionFound(log[1].before)) =>
    /\ log[2].result = "False"
    /\ log[2].writes = 0
    /\ log[2].after = log[1].after

C7_WriteOnlyOnChange ==
  \A k \in DOMAIN log :
    /\ log[k].writes <= 1
    /\ Returned(log[k]) =>
         /\ log[k].writes = 1 <=> log[k].computed # log[k].read
         /\ log[k].result = "True" <=> log[k].writes = 1
         /\ log[k].result = "False" <=> log[k].after = log[k].before
         /\ log[k].writes = 1 => log[k].after = log[k].computed
         /\ log[k].exit_code = 0

\* a run that wrote, followed by a run that left the file alone, both exiting 0
C7_Witness ==
  /\ Len(log) = 2
  /\ log[1].result = "True" /\ log[1].after # log[1].before /\ log[1].exit_code = 0
  /\ log[2].result = "False" /\ log[2].exit_code = 0
  /\ icons_js = log[1].after

\* C8 as stated: a call that returns on a file prefix + begin marker + old
\* region + end marker + suffix leaves the file equal to prefix + begin marker +
\* newline + entries + newline + end marker + suffix.
C8_RegionReplacement ==
  \A k \in DOMAIN log :
    (Returned(log[k]) /\ ExactlyOnce(log[k].before)) =>
      LET c == log[k].before
          i == PosOf(c, StartUnit)
          j == PosOf(c, EndUnit)
      IN log[k].after = SubSeq(c, 1, i - 1) \o <<StartUnit, Ch("\n")>> \o log[k].entries
                          \o <<Ch("\n"), EndUnit>> \o SubSeq(c, j + 1, Len(c))

\* ---- entry rendering
SvgOf(stem) == normalize_svg(ReadText(files[stem].text))

ClosingSvg(line) == IsPrefix(<<"<", "/", "s", "v", "g">>, LineChars(line))

ExpectedLine(key, lines, k) ==
  (IF k = 1 THEN T(<<" ", " ", key, ":", " ", BQ>>)
   ELSE IF ClosingSvg(lines[k]) THEN T(<<" ", " ">>)
   ELSE T(<<" ", " ", " ", " ">>))
    \o lines[k]
    \o (IF k = Len(lines) THEN T(<<BQ, ",">>) ELSE <<>>)

ExpectedEntry(key, svg) ==
  LET lines == SplitLines(svg)
  IN Join(T(<<"\n">>), [k \in 1 .. Len(lines) |-> ExpectedLine(key, lines, k)])

\* C10: the entries are the three entries nintendo (ns), playstation (ps), xbox
\* (xbox) in this order, separated by one blank line; the first line of an entry
\* follows two spaces, the key, a colon, a space and a backquote; every later line
\* is indented 4 spaces, or 2 spaces if it begins with </svg; backquote and comma
\* end the last line only.
C10_EntryRendering ==
  pc = "built" =>
    entries = Join(T(<<"\n", "\n">>),
                   <<ExpectedEntry("nintendo", SvgOf("ns")),
                     ExpectedEntry("playstation", SvgOf("ps")),
                     ExpectedEntry("xbox", SvgOf("xbox"))>>)

\* entries built from a one-line icon and from an icon with a line that begins
\* with </svg before its last line
C10_Witness ==
  /\ pc = "built"
  /\ Len(SplitLines(SvgOf("ns"))) = 1
  /\ LET lines == SplitLines(SvgOf("ps"))
     IN \E k \in 2 .. (Len(lines) - 1) : ClosingSvg(lines[k])
====
